---- MODULE Spec2Model ----
(***************************************************************************)
(* nexus::vector<T> (vector.h): a heap of new[]-allocated element arrays   *)
(* and two vector instances, each the three pointers first/last/end_ptr.   *)
(* A pointer into an array is (array address, slot offset); first is the   *)
(* array address (NULL for nullptr), last and end_ptr are kept as offsets  *)
(* from first, so size() = last and capacity() = end_ptr.                  *)
(* Every slot carries, besides its value, whether the element object in it *)
(* is inside its lifetime (constructed and not yet destroyed).             *)
(***************************************************************************)
EXTENDS Integers, Sequences, FiniteSets, TLC

\* ------------------------------------------------------------------ bounds
MaxHeap == 6      \* element slots allocated at the same time, one vector
MaxHeapPair == 4  \* element slots allocated at the same time, two vectors
NumBufs == 3      \* distinct array addresses the allocator hands out
MaxArg == 4       \* largest count / index / capacity argument passed in
MaxCmp == 2       \* largest capacity of a vector handed to a comparison

NULL == 0
T0 == 0           \* T(): the value-initialised element

Values == {0, 1}              \* the element values
Bufs   == 1 .. NumBufs
Names  == {"a", "b"}
Objs   == Names \cup {"temp"}      \* "temp": the local of copy assignment

\* mem: the number of element slots the free store can hold (fixed at start)
\* lifetimes: whether the slots' lifetime flags are maintained (fixed at
\* start; they are instrumentation, no member function reads them)
VARIABLES vec, heap, lastOp, fatal, mem, lifetimes
vars == <<vec, heap, lastOp, fatal, mem, lifetimes>>

\* ----------------------------------------------------------- the heap
Slot(v, l) == [val |-> v, live |-> l]

\* the lifetime flag a slot gets when its object is constructed / destroyed
Begun == TRUE
Ended == ~lifetimes

\* new T[n]: n default-constructed elements
NewArr(n) == [i \in 1 .. n |-> Slot(T0, Begun)]

NoArr == [alloc |-> FALSE, slots |-> <<>>]

SlotsInUse(h) ==
  LET RECURSIVE sum(_)
      sum(b) == IF b = 0 THEN 0 ELSE Len(h[b].slots) + sum(b - 1)
  IN sum(NumBufs)

FreeBufs(h) == {b \in Bufs : ~h[b].alloc}

\* new T[n] can be served: a free address and enough memory
CanAlloc(h, n) == FreeBufs(h) # {} /\ SlotsInUse(h) + n <= mem

Lowest(B) == CHOOSE b \in B : \A c \in B : b <= c

Ev(k, b, n) == [k |-> k, b |-> b, n |-> n]

\* The machine the member functions run on: the instances, the heap and
\* the log of allocator / element-lifetime events of the running call.
St(v, h, e) == [vec |-> v, heap |-> h, ev |-> e]

\* new T[n] returning address nb
New(S, nb, n) ==
  St(S.vec, [S.heap EXCEPT ![nb] = [alloc |-> TRUE, slots |-> NewArr(n)]],
     Append(S.ev, Ev("alloc", nb, n)))

DeadSlots(arr) == {i \in 1 .. Len(arr.slots) : ~arr.slots[i].live}


\* delete[] p: runs the destructor of each of the n elements new T[n] made
\* and releases the array; the event counts the elements whose lifetime
\* had already been ended by an explicit destructor call.
DeleteArr(S, p) ==
  IF p = NULL THEN S
  ELSE IF ~S.heap[p].alloc
       THEN St(S.vec, S.heap, Append(S.ev, Ev("refree", p, 0)))
       ELSE St(S.vec, [S.heap EXCEPT ![p] = NoArr],
               Append(S.ev, Ev("free", p, Cardinality(DeadSlots(S.heap[p])))))

\* first[i] = x (0-based i): assignment, the object's lifetime is untouched
Assign(S, p, i, x) ==
  St(S.vec, [S.heap EXCEPT ![p].slots[i + 1].val = x], S.ev)

\* p[i].~T()
DestroyAt(S, p, i) ==
  St(S.vec, [S.heap EXCEPT ![p].slots[i + 1].live = Ended],
     Append(S.ev, Ev("dtor", p, IF S.heap[p].slots[i + 1].live THEN 0 ELSE 1)))

\* new (p + i) T(x)
ConstructAt(S, p, i, x) ==
  St(S.vec, [S.heap EXCEPT ![p].slots[i + 1] = Slot(x, Begun)],
     Append(S.ev, Ev("ctor", p, IF S.heap[p].slots[i + 1].live THEN 1 ELSE 0)))

\* ----------------------------------------------------------- a vector
Vec(f, l, e) == [alive |-> TRUE, first |-> f, last |-> l, end_ptr |-> e]
Gone == [alive |-> FALSE, first |-> NULL, last |-> 0, end_ptr |-> 0]

size(S, w) == S.vec[w].last
capacity(S, w) == S.vec[w].end_ptr
empty(S, w) == size(S, w) = 0

SetVec(S, w, v) == St([S.vec EXCEPT ![w] = v], S.heap, S.ev)

\* the values of the elements [0, size())
Elems(S, w) ==
  [i \in 1 .. size(S, w) |-> S.heap[S.vec[w].first].slots[i].val]

\* first[i] = src[i] for i in [0, n)
RECURSIVE AssignAll(_, _, _, _)
AssignAll(S, p, src, n) ==
  IF n = 0 THEN S
  ELSE Assign(AssignAll(S, p, src, n - 1), p, n - 1, src[n])

\* the loop first[i] = src[i], i in [0, n), logged as one event
Fill(S, p, src, n) ==
  LET A == AssignAll(S, p, src, n)
  IN St(A.vec, A.heap, Append(A.ev, Ev("fill", p, n)))

\* ---------------------------------------------- construction, destruction
\* vector()
Ctor0(S, w) == SetVec(S, w, Vec(NULL, 0, 0))

\* vector(size_type count, const T &value)
CtorN(S, w, nb, count, value) ==
  SetVec(Fill(New(S, nb, count), nb, [i \in 1 .. count |-> value], count),
         w, Vec(nb, count, count))

\* vector(std::initializer_list<T> init)
CtorList(S, w, nb, init) ==
  Fill(CtorN(S, w, nb, Len(init), T0), nb, init, Len(init))

\* (a copy that shares the source's array instead of allocating its own)
CtorCopyShallow(S, w, nb, o) ==
  SetVec(S, w, Vec(S.vec[o].first, size(S, o), capacity(S, o)))

\* vector(const vector &other)
CtorCopy(S, w, nb, o) ==
  SetVec(Fill(New(S, nb, capacity(S, o)), nb, Elems(S, o), size(S, o)),
         w, Vec(nb, size(S, o), capacity(S, o)))

\* (a move constructor that leaves the source its pointers)
CtorMoveKeepsSource(S, w, o) ==
  SetVec(S, w, Vec(S.vec[o].first, S.vec[o].last, S.vec[o].end_ptr))

\* vector(vector &&other)
CtorMove(S, w, o) ==
  St([S.vec EXCEPT ![w] = Vec(S.vec[o].first, S.vec[o].last, S.vec[o].end_ptr),
                   ![o] = Vec(NULL, 0, 0)],
     S.heap, S.ev)

\* vector(pointer start, pointer end), the range being elements
\* [s, e) of the array of o
CtorRange(S, w, nb, o, s, e) ==
  SetVec(Fill(New(S, nb, e - s), nb,
                   [i \in 1 .. e - s |-> S.heap[S.vec[o].first].slots[s + i].val],
                   e - s),
         w, Vec(nb, e - s, e - s))

\* ~vector()
Dtor(S, w) == SetVec(DeleteArr(S, S.vec[w].first), w, Gone)

\* (a swap that exchanges first and last but not end_ptr)
swap_keeps_end_ptr(S, w, o) ==
  St([S.vec EXCEPT ![w] = [S.vec[o] EXCEPT !.end_ptr = S.vec[w].end_ptr],
                   ![o] = [S.vec[w] EXCEPT !.end_ptr = S.vec[o].end_ptr]],
     S.heap, S.ev)

\* swap(vector &other)
swap(S, w, o) ==
  St([S.vec EXCEPT ![w] = S.vec[o], ![o] = S.vec[w]], S.heap, S.ev)

\* (a copy assignment that releases the old array before building the new)
CopyAssignFreeFirst(S, w, nb, o) ==
  IF w # o
  THEN CtorCopy(DeleteArr(S, S.vec[w].first), w, nb, o)
  ELSE S

\* operator=(const vector &other)
CopyAssign(S, w, nb, o) ==
  IF w # o
  THEN Dtor(swap(CtorCopy(S, "temp", nb, o), w, "temp"), "temp")
  ELSE S

\* (a move assignment without the this != &other test)
MoveAssignNoSelfCheck(S, w, o) ==
  LET D == DeleteArr(S, S.vec[w].first)
  IN St([D.vec EXCEPT ![w] = Vec(S.vec[o].first, S.vec[o].last,
                                  S.vec[o].end_ptr),
                      ![o] = Vec(NULL, 0, 0)],
        D.heap, D.ev)

\* (a move assignment that does not release the destination's array)
MoveAssignLeaks(S, w, o) ==
  IF w # o
  THEN St([S.vec EXCEPT ![w] = Vec(S.vec[o].first, S.vec[o].last,
                                   S.vec[o].end_ptr),
                        ![o] = Vec(NULL, 0, 0)],
          S.heap, S.ev)
  ELSE S

\* operator=(vector &&other)
MoveAssign(S, w, o) ==
  IF w # o
  THEN LET D == DeleteArr(S, S.vec[w].first)
       IN St([D.vec EXCEPT ![w] = Vec(S.vec[o].first, S.vec[o].last,
                                       S.vec[o].end_ptr),
                           ![o] = Vec(NULL, 0, 0)],
             D.heap, D.ev)
  ELSE S

\* ------------------------------------------------------------ capacity
\* (a reallocate that leaves end_ptr at the old capacity)
reallocate_keeps_end_ptr(S, w, nb, new_cap) ==
  LET old_size == size(S, w)
      M == Fill(New(S, nb, new_cap), nb, Elems(S, w), old_size)
  IN SetVec(DeleteArr(M, S.vec[w].first), w,
            Vec(nb, old_size, capacity(S, w)))

\* reallocate(new_cap), new T[new_cap] returning address nb
reallocate(S, w, nb, new_cap) ==
  LET old_size == size(S, w)
      M == Fill(New(S, nb, new_cap), nb, Elems(S, w), old_size)
  IN SetVec(DeleteArr(M, S.vec[w].first), w, Vec(nb, old_size, new_cap))

GrowCap(old_cap) == IF old_cap = 0 THEN 1 ELSE old_cap * 2

\* grow()
grow(S, w, nb) == reallocate(S, w, nb, GrowCap(capacity(S, w)))

\* (a reserve that rounds the request up to twice the capacity)
reserve_rounds(S, w, nb, new_cap) ==
  IF new_cap > capacity(S, w)
  THEN reallocate(S, w, nb, IF new_cap > 2 * capacity(S, w)
                            THEN new_cap ELSE 2 * capacity(S, w))
  ELSE S

\* reserve(new_cap)
reserve(S, w, nb, new_cap) ==
  IF new_cap > capacity(S, w) THEN reallocate(S, w, nb, new_cap) ELSE S

\* (a shrink_to_fit that keeps one spare slot)
shrink_to_fit_spare(S, w, nb) ==
  IF capacity(S, w) > size(S, w) + 1
  THEN reallocate(S, w, nb, size(S, w) + 1)
  ELSE S

\* shrink_to_fit()
shrink_to_fit(S, w, nb) ==
  IF capacity(S, w) > size(S, w) THEN reallocate(S, w, nb, size(S, w)) ELSE S

\* ------------------------------------------------------------ mutation
\* A const T& argument: a temporary holding x (p = NULL) or a reference to
\* slot i of the array at p.
Tmp(x) == [p |-> NULL, i |-> 0, x |-> x]
Ref(p, i) == [p |-> p, i |-> i, x |-> T0]

\* Reading through the reference. Once the array it points into has been
\* released the read is of freed memory and yields whatever is there: junk.
Deref(S, r, junk) ==
  IF r.p = NULL THEN r.x
  ELSE IF S.heap[r.p].alloc /\ r.i < Len(S.heap[r.p].slots)
       THEN S.heap[r.p].slots[r.i + 1].val
       ELSE junk

\* push_back(const T &value)
push_back(S, w, nb, value, junk) ==
  LET G == IF S.vec[w].last = S.vec[w].end_ptr THEN grow(S, w, nb) ELSE S
      A == Assign(G, G.vec[w].first, G.vec[w].last, Deref(G, value, junk))
  IN SetVec(A, w, [A.vec[w] EXCEPT !.last = @ + 1])

\* emplace_back(args...), the arguments constructing the value x
emplace_back(S, w, nb, x) ==
  LET G == IF S.vec[w].last = S.vec[w].end_ptr THEN grow(S, w, nb) ELSE S
      C == ConstructAt(G, G.vec[w].first, G.vec[w].last, x)
  IN SetVec(C, w, [C.vec[w] EXCEPT !.last = @ + 1])

\* (a pop_back that also gives up the slot: end_ptr follows last)
pop_back_shrinks(S, w) ==
  LET D == SetVec(S, w, [S.vec[w] EXCEPT !.last = @ - 1, !.end_ptr = @ - 1])
  IN DestroyAt(D, D.vec[w].first, D.vec[w].last)

\* pop_back() past its empty() check
pop_back(S, w) ==
  LET D == SetVec(S, w, [S.vec[w] EXCEPT !.last = @ - 1])
  IN DestroyAt(D, D.vec[w].first, D.vec[w].last)

\* (a clear that also forgets the capacity)
clear_forgets_capacity(S, w) ==
  SetVec(S, w, [S.vec[w] EXCEPT !.last = 0, !.end_ptr = 0])

\* clear()
RECURSIVE clear(_, _)
clear(S, w) ==
  IF S.vec[w].last # 0
  THEN LET D == SetVec(S, w, [S.vec[w] EXCEPT !.last = @ - 1])
       IN clear(DestroyAt(D, D.vec[w].first, D.vec[w].last), w)
  ELSE S

RECURSIVE PopDownTo(_, _, _)
PopDownTo(S, w, new_size) ==
  IF size(S, w) > new_size THEN PopDownTo(pop_back(S, w), w, new_size) ELSE S

RECURSIVE PushUpTo(_, _, _, _, _, _)
PushUpTo(S, w, nb, new_size, value, junk) ==
  IF size(S, w) < new_size
  THEN PushUpTo(push_back(S, w, nb, value, junk), w, nb, new_size, value, junk)
  ELSE S

\* resize(new_size, value)
resize(S, w, nb, new_size, value, junk) ==
  IF new_size < size(S, w) THEN PopDownTo(S, w, new_size)
  ELSE IF new_size > size(S, w)
       THEN PushUpTo(reserve(S, w, nb, new_size), w, nb, new_size, value, junk)
       ELSE S

\* ------------------------------------------------------- element access
\* (a bounds test against the capacity instead of the size)
at_fails_capacity(S, w, index) == index >= capacity(S, w)

\* the bounds test of at(index)
at_fails(S, w, index) == index >= size(S, w)

\* the emptiness test of front(), back() and pop_back()
empty_fails(S, w) == empty(S, w)

\* first[index]
Subscript(S, w, index) == S.heap[S.vec[w].first].slots[index + 1].val

\* *first
front(S, w) == Subscript(S, w, 0)

\* (a back() that returns *first)
back_first(S, w) == Subscript(S, w, 0)

\* *(last - 1)
back(S, w) == Subscript(S, w, S.vec[w].last - 1)

\* ------------------------------------------------------------ comparison
\* the loop of operator==: lhs[i] == rhs[i] for every i in [i, lhs.size())
RECURSIVE EqualFrom(_, _, _, _)
EqualFrom(S, lhs, rhs, i) ==
  IF i < size(S, lhs)
  THEN IF ~(Subscript(S, lhs, i) = Subscript(S, rhs, i)) THEN FALSE
       ELSE EqualFrom(S, lhs, rhs, i + 1)
  ELSE TRUE

\* (an operator== that also wants the capacities equal)
operator_eq_capacity(S, lhs, rhs) ==
  IF size(S, lhs) # size(S, rhs) \/ capacity(S, lhs) # capacity(S, rhs)
  THEN FALSE
  ELSE EqualFrom(S, lhs, rhs, 0)

\* operator==(lhs, rhs)
operator_eq(S, lhs, rhs) ==
  IF size(S, lhs) # size(S, rhs) THEN FALSE ELSE EqualFrom(S, lhs, rhs, 0)

\* operator!=(lhs, rhs)
operator_ne(S, lhs, rhs) == ~operator_eq(S, lhs, rhs)

\* std::lexicographical_compare(lhs.begin(), lhs.end(), rhs.begin(),
\* rhs.end()) with both iterators i elements on: T's operator< decides at
\* the first position where the elements differ, else the shorter is less
RECURSIVE lexicographical_compare(_, _, _, _)
lexicographical_compare(S, lhs, rhs, i) ==
  IF i # size(S, lhs) /\ i # size(S, rhs)
  THEN IF Subscript(S, lhs, i) < Subscript(S, rhs, i) THEN TRUE
       ELSE IF Subscript(S, rhs, i) < Subscript(S, lhs, i) THEN FALSE
       ELSE lexicographical_compare(S, lhs, rhs, i + 1)
  ELSE i = size(S, lhs) /\ i # size(S, rhs)

\* operator<(lhs, rhs)
operator_lt(S, lhs, rhs) == lexicographical_compare(S, lhs, rhs, 0)

\* operator<=(lhs, rhs)
operator_le(S, lhs, rhs) == ~operator_lt(S, rhs, lhs)

\* operator>(lhs, rhs)
operator_gt(S, lhs, rhs) == operator_lt(S, rhs, lhs)

\* operator>=(lhs, rhs)
operator_ge(S, lhs, rhs) == ~operator_lt(S, lhs, rhs)

\* ------------------------------------------------------------ stream I/O
\* operator>>(is, vec): is >> elem for each element in turn; the stream
\* holds the values in, at most size() of them, and an extraction from the
\* exhausted stream fails and leaves its element as it was
operator_extract(S, w, in) == AssignAll(S, S.vec[w].first, in, Len(in))

\* operator<<(os, vec): what is written for the elements from index i on,
\* each followed by ' ' unless it is the last, and the closing '\n'
RECURSIVE operator_insert(_, _, _)
operator_insert(S, w, i) ==
  IF i < size(S, w)
  THEN ToString(Subscript(S, w, i))
         \o (IF i + 1 # size(S, w) THEN " " ELSE "")
         \o operator_insert(S, w, i + 1)
  ELSE "\n"

\* ------------------------------------------------------------- the steps
None == 0 - 1

Op(op, w, o, args, ret, ev) ==
  [op |-> op, who |-> w, other |-> o, args |-> args, ret |-> ret, ev |-> ev]

S0 == St(vec, heap, <<>>)

\* a call that returns, leaving the machine as S
Returns(op, w, o, args, ret, S) ==
  /\ vec' = S.vec
  /\ heap' = S.heap
  /\ lastOp' = Op(op, w, o, args, ret, S.ev)
  /\ fatal' = fatal
  /\ UNCHANGED <<mem, lifetimes>>

\* a call that reports the condition on std::cerr and calls std::exit
Exits(op, w, args, condition) ==
  /\ fatal' = condition
  /\ lastOp' = Op(op, w, w, args, None, <<>>)
  /\ UNCHANGED <<vec, heap, mem, lifetimes>>

Running == fatal = "none"
Alive(w) == vec[w].alive

\* the address new T[n] returns when the call allocates (the allocator is
\* first-fit: the lowest free address), NULL when it does not; no address
\* when the free store cannot serve the request
NewAddr(allocates, n) ==
  IF ~allocates THEN {NULL}
  ELSE IF CanAlloc(heap, n) THEN {Lowest(FreeBufs(heap))} ELSE {}

\* what a read of freed memory may yield, when the call can make one
Junk(dangles) == IF dangles THEN Values ELSE {T0}

Lists == UNION {[1 .. n -> Values] : n \in 0 .. 2}

Construct0(w) ==
  /\ Running /\ ~Alive(w)
  /\ Returns("vector()", w, w, <<>>, None, Ctor0(S0, w))

ConstructN(w) ==
  /\ Running /\ ~Alive(w)
  /\ \E count \in 0 .. MaxArg, value \in Values :
       \E nb \in NewAddr(TRUE, count) :
         Returns("vector(n,v)", w, w, <<count, value>>, None,
                 CtorN(S0, w, nb, count, value))

ConstructList(w) ==
  /\ Running /\ ~Alive(w)
  /\ \E init \in Lists :
       \E nb \in NewAddr(TRUE, Len(init)) :
         Returns("vector{..}", w, w, init, None, CtorList(S0, w, nb, init))

ConstructCopy(w) ==
  /\ Running /\ ~Alive(w)
  /\ \E o \in Names \ {w} :
       /\ Alive(o)
       /\ \E nb \in NewAddr(TRUE, capacity(S0, o)) :
            Returns("vector(const&)", w, o, <<>>, None, CtorCopy(S0, w, nb, o))

ConstructMove(w) ==
  /\ Running /\ ~Alive(w)
  /\ \E o \in Names \ {w} :
       /\ Alive(o)
       /\ Returns("vector(&&)", w, o, <<>>, None, CtorMove(S0, w, o))

ConstructRange(w) ==
  /\ Running /\ ~Alive(w)
  /\ \E o \in Names \ {w} :
       /\ Alive(o)
       /\ \E e \in 0 .. size(S0, o) :
            \E s \in 0 .. e :
              \E nb \in NewAddr(TRUE, e - s) :
                Returns("vector(p,q)", w, o, <<s, e>>, None,
                        CtorRange(S0, w, nb, o, s, e))

Destroy(w) ==
  /\ Running /\ Alive(w)
  /\ Returns("~vector", w, w, <<>>, None, Dtor(S0, w))

AssignCopy(w) ==
  /\ Running /\ Alive(w)
  /\ \E o \in Names :
       /\ Alive(o)
       /\ \E nb \in NewAddr(w # o, capacity(S0, o)) :
            Returns("=(const&)", w, o, <<>>, None, CopyAssign(S0, w, nb, o))

AssignMove(w) ==
  /\ Running /\ Alive(w)
  /\ \E o \in Names :
       /\ Alive(o)
       /\ Returns("=(&&)", w, o, <<>>, None, MoveAssign(S0, w, o))

Swap(w) ==
  /\ Running /\ Alive(w)
  /\ \E o \in Names :
       /\ Alive(o)
       /\ Returns("swap", w, o, <<>>, None, swap(S0, w, o))

\* v[index] = x through operator[], index < size() being the caller's duty
Write(w) ==
  /\ Running /\ Alive(w)
  /\ \E index \in 0 .. size(S0, w) - 1, x \in Values :
       Returns("[]=", w, w, <<index, x>>, None,
               Assign(S0, vec[w].first, index, x))

At(w) ==
  /\ Running /\ Alive(w)
  /\ \E index \in 0 .. MaxArg :
       IF at_fails(S0, w, index)
       THEN Exits("at", w, <<index>>, "IndexOutOfRange")
       ELSE Returns("at", w, w, <<index>>, Subscript(S0, w, index), S0)

Front(w) ==
  /\ Running /\ Alive(w)
  /\ IF empty_fails(S0, w)
     THEN Exits("front", w, <<>>, "EmptyContainerAccess")
     ELSE Returns("front", w, w, <<>>, front(S0, w), S0)

Back(w) ==
  /\ Running /\ Alive(w)
  /\ IF empty_fails(S0, w)
     THEN Exits("back", w, <<>>, "EmptyContainerAccess")
     ELSE Returns("back", w, w, <<>>, back(S0, w), S0)

\* the arguments a caller can bind to const T &value: a temporary, or an
\* element of the vector itself (v.push_back(v[i])); a resize that does not
\* grow never reads value and is called with the default T()
ValueArgs(w) ==
  {Tmp(x) : x \in Values} \cup {Ref(vec[w].first, i) : i \in 0 .. size(S0, w) - 1}

ArgCode(value) == IF value.p = NULL THEN <<0, value.x>> ELSE <<1, value.i>>

PushBack(w) ==
  /\ Running /\ Alive(w)
  /\ \E value \in ValueArgs(w) :
       LET full == vec[w].last = vec[w].end_ptr IN
       \E nb \in NewAddr(full, GrowCap(capacity(S0, w))) :
         \E junk \in Junk(full /\ value.p # NULL) :
           Returns("push_back", w, w, ArgCode(value), None,
                   push_back(S0, w, nb, value, junk))

EmplaceBack(w) ==
  /\ Running /\ Alive(w)
  /\ \E x \in Values :
       LET full == vec[w].last = vec[w].end_ptr IN
       \E nb \in NewAddr(full, GrowCap(capacity(S0, w))) :
         Returns("emplace_back", w, w, <<x>>, None, emplace_back(S0, w, nb, x))

PopBack(w) ==
  /\ Running /\ Alive(w)
  /\ IF empty_fails(S0, w)
     THEN Exits("pop_back", w, <<>>, "EmptyContainerAccess")
     ELSE Returns("pop_back", w, w, <<>>, None, pop_back(S0, w))

Clear(w) ==
  /\ Running /\ Alive(w)
  /\ Returns("clear", w, w, <<>>, None, clear(S0, w))

Resize(w) ==
  /\ Running /\ Alive(w)
  /\ \E new_size \in 0 .. MaxArg :
     \E value \in (IF new_size > size(S0, w) THEN ValueArgs(w) ELSE {Tmp(T0)}) :
       LET grows == new_size > capacity(S0, w) IN
       \E nb \in NewAddr(grows, new_size) :
         \E junk \in Junk(grows /\ value.p # NULL) :
           Returns("resize", w, w, <<new_size>> \o ArgCode(value), None,
                   resize(S0, w, nb, new_size, value, junk))

Reserve(w) ==
  /\ Running /\ Alive(w)
  /\ \E new_cap \in 0 .. MaxArg :
       \E nb \in NewAddr(new_cap > capacity(S0, w), new_cap) :
         Returns("reserve", w, w, <<new_cap>>, None,
                 reserve(S0, w, nb, new_cap))

ShrinkToFit(w) ==
  /\ Running /\ Alive(w)
  /\ \E nb \in NewAddr(capacity(S0, w) > size(S0, w), size(S0, w)) :
       Returns("shrink_to_fit", w, w, <<>>, None, shrink_to_fit(S0, w, nb))

\* is >> w
Input(w) ==
  /\ Running /\ Alive(w)
  /\ \E n \in 0 .. size(S0, w) :
       \E in \in [1 .. n -> Values] :
         Returns(">>", w, w, in, None, operator_extract(S0, w, in))

\* os << w
Output(w) ==
  /\ Running /\ Alive(w)
  /\ Returns("<<", w, w, <<>>, operator_insert(S0, w, 0), S0)

\* w == o, w != o, w < o, w <= o, w > o, w >= o: the operands are const
Equal(w) ==
  /\ Running /\ Alive(w)
  /\ \E o \in Names :
       Alive(o) /\ Returns("==", w, o, <<>>, operator_eq(S0, w, o), S0)

NotEqual(w) ==
  /\ Running /\ Alive(w)
  /\ \E o \in Names :
       Alive(o) /\ Returns("!=", w, o, <<>>, operator_ne(S0, w, o), S0)

Less(w) ==
  /\ Running /\ Alive(w)
  /\ \E o \in Names :
       Alive(o) /\ Returns("<", w, o, <<>>, operator_lt(S0, w, o), S0)

LessEqual(w) ==
  /\ Running /\ Alive(w)
  /\ \E o \in Names :
       Alive(o) /\ Returns("<=", w, o, <<>>, operator_le(S0, w, o), S0)

Greater(w) ==
  /\ Running /\ Alive(w)
  /\ \E o \in Names :
       Alive(o) /\ Returns(">", w, o, <<>>, operator_gt(S0, w, o), S0)

GreaterEqual(w) ==
  /\ Running /\ Alive(w)
  /\ \E o \in Names :
       Alive(o) /\ Returns(">=", w, o, <<>>, operator_ge(S0, w, o), S0)

Start(m, l) ==
  /\ vec = [w \in Objs |-> Gone]
  /\ heap = [b \in Bufs |-> NoArr]
  /\ lastOp = Op("start", "a", "a", <<>>, None, <<>>)
  /\ fatal = "none"
  /\ mem = m
  /\ lifetimes = l

\* the calls on one vector
Unary(w) ==
  \/ Construct0(w)
  \/ ConstructN(w)
  \/ ConstructList(w)
  \/ Destroy(w)
  \/ Write(w)
  \/ At(w)
  \/ Front(w)
  \/ Back(w)
  \/ PushBack(w)
  \/ EmplaceBack(w)
  \/ PopBack(w)
  \/ Clear(w)
  \/ Resize(w)
  \/ Reserve(w)
  \/ ShrinkToFit(w)
  \/ Input(w)
  \/ Output(w)

\* the calls that take another vector (or the vector itself)
Binary(w) ==
  \/ ConstructCopy(w)
  \/ ConstructMove(w)
  \/ ConstructRange(w)
  \/ AssignCopy(w)
  \/ AssignMove(w)
  \/ Swap(w)

\* the comparisons of a vector with another (or with itself)
Compare(w) ==
  \/ Equal(w)
  \/ NotEqual(w)
  \/ Less(w)
  \/ LessEqual(w)
  \/ Greater(w)
  \/ GreaterEqual(w)

\* one vector, a
Init == Start(MaxHeap, TRUE)
Next == Unary("a") \/ Compare("a")
Spec == Init /\ [][Next]_vars

\* two vectors, a and b
InitPair == Start(MaxHeapPair, FALSE)
NextPair ==
  \E w \in Names :
    \/ Binary(w)
    \/ Construct0(w)
    \/ ConstructN(w)
    \/ Destroy(w)
    \/ Write(w)
    \/ PushBack(w)
    \/ EmplaceBack(w)
    \/ PopBack(w)
    \/ Clear(w)
    \/ Resize(w)
    \/ Reserve(w)
    \/ ShrinkToFit(w)
SpecPair == InitPair /\ [][NextPair]_vars

\* the comparisons, on two vectors in any of the states a vector of
\* capacity up to MaxCmp can be in: a at address 1, b at address 2, any
\* length up to the capacity, any values in the slots, spare ones included
Arrays == UNION {[1 .. n -> Values] : n \in 0 .. MaxCmp}

Holding(p, slots, len) ==
  IF Len(slots) = 0 THEN Vec(NULL, 0, 0) ELSE Vec(p, len, Len(slots))

Stored(slots) ==
  IF Len(slots) = 0 THEN NoArr
  ELSE [alloc |-> TRUE, slots |-> [i \in 1 .. Len(slots) |-> Slot(slots[i], Begun)]]

InitCmp ==
  \E sa \in Arrays, sb \in Arrays :
    \E la \in 0 .. Len(sa), lb \in 0 .. Len(sb) :
      /\ vec = [w \in Objs |-> IF w = "a" THEN Holding(1, sa, la)
                               ELSE IF w = "b" THEN Holding(2, sb, lb)
                               ELSE Gone]
      /\ heap = [b \in Bufs |-> IF b = 1 THEN Stored(sa)
                                ELSE IF b = 2 THEN Stored(sb)
                                ELSE NoArr]
      /\ lastOp = Op("start", "a", "a", <<>>, None, <<>>)
      /\ fatal = "none"
      /\ mem = MaxHeap
      /\ lifetimes = FALSE

NextCmp == \E w \in Names : Compare(w)
SpecCmp == InitCmp /\ [][NextCmp]_vars

\* ------------------------------------------------------------ the claims
Sz(w) == vec[w].last
Cap(w) == vec[w].end_ptr
Buf(w) == vec[w].first
Els(w) == Elems(S0, w)
Max(x, y) == IF x >= y THEN x ELSE y
Pow2 == {1, 2, 4, 8, 16}

\* the value a const T& argument, as recorded in lastOp.args from position
\* k on, denotes when the call is made
ArgValue(w, args, k) ==
  IF args[k] = 0 THEN args[k + 1] ELSE Els(w)[args[k + 1] + 1]

\* C1: push_back makes the length one more, puts the pushed value at the old
\* end and leaves the earlier elements alone; the capacity changes only when
\* the call finds length = capacity, to max(1, 2 * capacity), so that
\* capacities that start at 0 run 1, 2, 4, 8, ... and cover the length.
C1_PushBackAppends ==
  [][\A w \in Names :
       lastOp'.op = "push_back" /\ lastOp'.who = w =>
         /\ Sz(w)' = Sz(w) + 1
         /\ Cap(w)' = IF Sz(w) = Cap(w) THEN Max(1, 2 * Cap(w)) ELSE Cap(w)
         /\ Cap(w) \in Pow2 \cup {0} => Cap(w)' \in Pow2 /\ Cap(w)' >= Sz(w)'
         /\ Els(w)' = Append(Els(w), ArgValue(w, lastOp'.args, 1))]_vars

\* C2: every element object constructed in an array is destroyed exactly
\* once: no call runs a destructor on an object already destroyed (by
\* pop_back, clear or a shrinking resize), no array is released twice, and
\* once the vectors are gone no array (hence no object) is left.
C2_DestroyedExactlyOnce ==
  /\ \A i \in DOMAIN lastOp.ev :
       /\ lastOp.ev[i].k \in {"free", "dtor"} => lastOp.ev[i].n = 0
       /\ lastOp.ev[i].k # "refree"
  /\ (\A w \in Objs : ~vec[w].alive) => \A b \in Bufs : ~heap[b].alloc

\* the instance o and the array it owns are as before the step
Same(o) ==
  /\ vec'[o] = vec[o]
  /\ Buf(o) # NULL => heap'[Buf(o)] = heap[Buf(o)]

Called(op, w, o) == lastOp'.op = op /\ lastOp'.who = w /\ lastOp'.other = o

Mutators ==
  {"[]=", "push_back", "emplace_back", "pop_back", "resize", "clear",
   "reserve", "shrink_to_fit"}

\* C3: the copy constructor gives the new vector the source's length,
\* elements and capacity in an array of its own and leaves the source as it
\* was; after that a call that mutates one vector leaves the other vector's
\* length, capacity and elements as they were.
C3_CopyIsIndependent ==
  [][\A w \in Names, o \in Names :
       w # o =>
         /\ Called("vector(const&)", w, o) =>
              /\ Sz(w)' = Sz(o)
              /\ Els(w)' = Els(o)
              /\ Cap(w)' = Cap(o)
              /\ Buf(w)' # Buf(o)'
              /\ heap'[Buf(w)'].alloc
              /\ Same(o)
         /\ lastOp'.op \in Mutators /\ lastOp'.who = w /\ vec[o].alive =>
              /\ Same(o)
              /\ Els(o)' = Els(o)]_vars

C3_Witness ==
  /\ lastOp.op = "vector(const&)"
  /\ Sz(lastOp.who) >= 1
  /\ Cap(lastOp.who) > Sz(lastOp.who)
  /\ Els(lastOp.who) = Els(lastOp.other)

\* C4: move construction and move assignment from another vector hand the
\* source's array, length and capacity to the destination and leave the
\* source with no array, length 0 and capacity 0, allocating nothing and
\* touching no element of the array handed over; move assignment releases
\* the array the destination had; move assignment to itself changes nothing.
C4_MoveTransfers ==
  [][\A w \in Names, o \in Names :
       /\ w # o /\ (Called("vector(&&)", w, o) \/ Called("=(&&)", w, o)) =>
            /\ Buf(w)' = Buf(o) /\ Sz(w)' = Sz(o) /\ Cap(w)' = Cap(o)
            /\ Buf(o)' = NULL /\ Sz(o)' = 0 /\ Cap(o)' = 0
            /\ \A i \in DOMAIN lastOp'.ev : lastOp'.ev[i].k = "free"
            /\ Buf(o) # NULL => heap'[Buf(o)] = heap[Buf(o)]
            /\ Called("vector(&&)", w, o) => heap' = heap
            /\ Called("=(&&)", w, o) /\ Buf(w) # NULL =>
                 /\ ~heap'[Buf(w)].alloc
                 /\ lastOp'.ev = <<Ev("free", Buf(w), 0)>>
       /\ Called("=(&&)", w, w) => vec' = vec /\ heap' = heap]_vars

C4_Witness ==
  /\ lastOp.op = "=(&&)"
  /\ lastOp.who # lastOp.other
  /\ Len(lastOp.ev) = 1
  /\ Sz(lastOp.who) >= 1
  /\ Buf(lastOp.other) = NULL

\* C5: copy assignment from another vector allocates the replacement array
\* and copies all the source's elements into it before it releases the
\* destination's old array; afterwards the destination has the source's
\* elements and capacity, the source is as it was and the old array is
\* released. Copy assignment to itself changes nothing.
C5_CopyAssignBuildsFirst ==
  [][\A w \in Names, o \in Names :
       /\ w # o /\ Called("=(const&)", w, o) =>
            /\ Sz(w)' = Sz(o) /\ Els(w)' = Els(o) /\ Cap(w)' = Cap(o)
            /\ Same(o)
            /\ Buf(w) # NULL => ~heap'[Buf(w)].alloc
            /\ lastOp'.ev =
                 <<Ev("alloc", Buf(w)', Cap(o)), Ev("fill", Buf(w)', Sz(o))>>
                 \o (IF Buf(w) = NULL THEN <<>> ELSE <<Ev("free", Buf(w), 0)>>)
       /\ Called("=(const&)", w, w) =>
            vec' = vec /\ heap' = heap /\ lastOp'.ev = <<>>]_vars

C5_Witness ==
  /\ lastOp.op = "=(const&)"
  /\ lastOp.who # lastOp.other
  /\ Len(lastOp.ev) = 3
  /\ Sz(lastOp.who) >= 1
  /\ Els(lastOp.who) = Els(lastOp.other)

\* C6: at(index) exits with IndexOutOfRange exactly when index >= length
\* (so also for an index in [length, capacity)); otherwise it returns the
\* element at that index; either way the vector is not modified.
C6_AtChecksLength ==
  [][\A w \in Names :
       lastOp'.op = "at" /\ lastOp'.who = w =>
         /\ fatal' = "IndexOutOfRange" <=> lastOp'.args[1] >= Sz(w)
         /\ lastOp'.args[1] < Sz(w) =>
              fatal' = "none" /\ lastOp'.ret = Els(w)[lastOp'.args[1] + 1]
         /\ vec' = vec /\ heap' = heap]_vars

C6_Witness ==
  /\ lastOp.op = "at"
  /\ fatal = "IndexOutOfRange"
  /\ lastOp.args[1] >= Sz(lastOp.who)
  /\ lastOp.args[1] < Cap(lastOp.who)

\* C7: front() and back() exit with EmptyContainerAccess exactly when the
\* length is 0; otherwise front() returns the element at index 0 and back()
\* the element at index length - 1; the vector is not modified.
C7_FrontBack ==
  [][\A w \in Names :
       lastOp'.op \in {"front", "back"} /\ lastOp'.who = w =>
         /\ fatal' = "EmptyContainerAccess" <=> Sz(w) = 0
         /\ Sz(w) > 0 =>
              /\ fatal' = "none"
              /\ lastOp'.op = "front" => lastOp'.ret = Els(w)[1]
              /\ lastOp'.op = "back" => lastOp'.ret = Els(w)[Sz(w)]
         /\ vec' = vec /\ heap' = heap]_vars

C7_Witness ==
  /\ lastOp.op = "back"
  /\ fatal = "none"
  /\ Sz(lastOp.who) >= 2
  /\ lastOp.ret = Els(lastOp.who)[Sz(lastOp.who)]
  /\ lastOp.ret # Els(lastOp.who)[1]

\* C8: pop_back() on an empty vector exits with EmptyContainerAccess and
\* changes nothing; on a non-empty vector it makes the length one less and
\* leaves the remaining elements, the capacity and the array address alone.
C8_PopBack ==
  [][\A w \in Names :
       lastOp'.op = "pop_back" /\ lastOp'.who = w =>
         /\ Sz(w) = 0 =>
              fatal' = "EmptyContainerAccess" /\ vec' = vec /\ heap' = heap
         /\ Sz(w) > 0 =>
              /\ fatal' = "none"
              /\ Sz(w)' = Sz(w) - 1
              /\ Els(w)' = SubSeq(Els(w), 1, Sz(w) - 1)
              /\ Cap(w)' = Cap(w)
              /\ Buf(w)' = Buf(w)]_vars

C8_Witness ==
  /\ lastOp.op = "pop_back"
  /\ fatal = "none"
  /\ Sz(lastOp.who) >= 1
  /\ Cap(lastOp.who) > Sz(lastOp.who)

\* C9: reserve(new_cap) with new_cap > capacity makes the capacity exactly
\* new_cap and keeps the length and the elements in order; with
\* new_cap <= capacity it changes nothing, the array address included.
C9_Reserve ==
  [][\A w \in Names :
       lastOp'.op = "reserve" /\ lastOp'.who = w =>
         /\ lastOp'.args[1] > Cap(w) =>
              /\ Cap(w)' = lastOp'.args[1]
              /\ Sz(w)' = Sz(w)
              /\ Els(w)' = Els(w)
         /\ lastOp'.args[1] <= Cap(w) => vec' = vec /\ heap' = heap]_vars

C9_Witness ==
  /\ lastOp.op = "reserve"
  /\ lastOp.ev # <<>>
  /\ Cap(lastOp.who) = lastOp.args[1]
  /\ Sz(lastOp.who) >= 2
  /\ Cap(lastOp.who) > Sz(lastOp.who)

\* C10: resize(new_size, v) ends with length new_size; shrinking keeps the
\* elements [0, new_size); growing keeps the elements [0, old length) and
\* makes every element of [old length, new_size) equal to v.
C10_Resize ==
  [][\A w \in Names :
       lastOp'.op = "resize" /\ lastOp'.who = w =>
         /\ Sz(w)' = lastOp'.args[1]
         /\ lastOp'.args[1] <= Sz(w) =>
              Els(w)' = SubSeq(Els(w), 1, lastOp'.args[1])
         /\ lastOp'.args[1] > Sz(w) =>
              Els(w)' = Els(w) \o [i \in 1 .. lastOp'.args[1] - Sz(w) |->
                                     ArgValue(w, lastOp'.args, 2)]]_vars

\* C11: after shrink_to_fit() the capacity equals the length and the
\* elements are the same, in order; called on a vector whose capacity
\* already equals its length (as it does right after a shrink_to_fit) it
\* changes nothing: no allocation, same array, same length and capacity.
C11_ShrinkToFit ==
  [][\A w \in Names :
       lastOp'.op = "shrink_to_fit" /\ lastOp'.who = w =>
         /\ Cap(w)' = Sz(w)'
         /\ Sz(w)' = Sz(w)
         /\ Els(w)' = Els(w)
         /\ shrink_to_fit(St(vec', heap', <<>>), w, NULL) = St(vec', heap', <<>>)
         /\ Cap(w) = Sz(w) =>
              vec' = vec /\ heap' = heap /\ lastOp'.ev = <<>>]_vars

C11_Witness ==
  /\ lastOp.op = "shrink_to_fit"
  /\ lastOp.ev # <<>>
  /\ Sz(lastOp.who) >= 2
  /\ Cap(lastOp.who) = Sz(lastOp.who)
  /\ 0 \in {Els(lastOp.who)[i] : i \in 1 .. Sz(lastOp.who)}
  /\ 1 \in {Els(lastOp.who)[i] : i \in 1 .. Sz(lastOp.who)}

\* C12: w.swap(o) leaves w with the array address, length and capacity o
\* had and o with those w had; it allocates and releases nothing and
\* constructs, destroys and copies no element (the heap is untouched and
\* the call logs no event); swapping again gives both vectors back as they
\* were; w.swap(w) changes nothing.
C12_Swap ==
  [][\A w \in Names, o \in Names :
       Called("swap", w, o) =>
         /\ Buf(w)' = Buf(o) /\ Sz(w)' = Sz(o) /\ Cap(w)' = Cap(o)
         /\ Buf(o)' = Buf(w) /\ Sz(o)' = Sz(w) /\ Cap(o)' = Cap(w)
         /\ heap' = heap
         /\ lastOp'.ev = <<>>
         /\ swap(St(vec', heap', <<>>), w, o) = S0
         /\ w = o => vec' = vec]_vars

C12_Witness ==
  /\ lastOp.op = "swap"
  /\ lastOp.who # lastOp.other
  /\ Buf(lastOp.who) # NULL
  /\ Buf(lastOp.other) # NULL
  /\ Sz(lastOp.who) > Sz(lastOp.other)
  /\ Cap(lastOp.who) < Cap(lastOp.other)

\* x is lexicographically less than y: they agree on a prefix after which x
\* has ended and y has not, or x has the smaller element
LexLess(x, y) ==
  \E k \in 0 .. Len(x) :
    /\ k <= Len(y)
    /\ \A i \in 1 .. k : x[i] = y[i]
    /\ \/ k = Len(x) /\ k < Len(y)
       \/ k < Len(x) /\ k < Len(y) /\ x[k + 1] < y[k + 1]

SameSeq(x, y) == Len(x) = Len(y) /\ \A i \in 1 .. Len(x) : x[i] = y[i]

\* C13: l == r returns whether the two have the same length and equal
\* elements at every index below it, whatever their capacities and spare
\* slots hold; l < r returns whether l is lexicographically less than r (a
\* proper prefix is less); !=, <=, > and >= return the matching
\* combinations; of l < r, l == r and l > r exactly one is true.
C13_Comparisons ==
  /\ \A l \in Names, r \in Names :
       lastOp.who = l /\ lastOp.other = r =>
         /\ lastOp.op = "==" => lastOp.ret = SameSeq(Els(l), Els(r))
         /\ lastOp.op = "!=" => lastOp.ret = ~SameSeq(Els(l), Els(r))
         /\ lastOp.op = "<" => lastOp.ret = LexLess(Els(l), Els(r))
         /\ lastOp.op = ">" => lastOp.ret = LexLess(Els(r), Els(l))
         /\ lastOp.op = "<=" =>
              lastOp.ret = (LexLess(Els(l), Els(r)) \/ SameSeq(Els(l), Els(r)))
         /\ lastOp.op = ">=" =>
              lastOp.ret = (LexLess(Els(r), Els(l)) \/ SameSeq(Els(l), Els(r)))
  /\ \A l \in Names, r \in Names :
       Alive(l) /\ Alive(r) =>
         LET lt == operator_lt(S0, l, r)
             eq == operator_eq(S0, l, r)
             gt == operator_gt(S0, l, r)
         IN /\ lt \/ eq \/ gt
            /\ ~(lt /\ eq) /\ ~(lt /\ gt) /\ ~(eq /\ gt)
            /\ operator_ne(S0, l, r) = ~eq
            /\ operator_le(S0, l, r) = (lt \/ eq)
            /\ operator_ge(S0, l, r) = (gt \/ eq)

C13_Witness ==
  /\ lastOp.op = "=="
  /\ lastOp.ret = TRUE
  /\ lastOp.who # lastOp.other
  /\ Sz(lastOp.who) >= 1
  /\ Cap(lastOp.who) > Cap(lastOp.other)
  /\ Cap(lastOp.who) > Sz(lastOp.who)

\* C14: whatever calls have been made (constructions, push_back,
\* emplace_back, pop_back, clear, resize, reserve, shrink_to_fit, copy and
\* move assignment, swap), every vector has 0 <= length <= capacity.
C14_LengthWithinCapacity ==
  \A w \in Names : Alive(w) => 0 <= Sz(w) /\ Sz(w) <= Cap(w)

C14_Witness ==
  /\ lastOp.op = "emplace_back"
  /\ Sz(lastOp.who) >= 3
  /\ Cap(lastOp.who) > Sz(lastOp.who)
  /\ \E o \in Names : Alive(o) /\ Sz(o) = Cap(o) /\ Sz(o) = 0 /\ Buf(o) = NULL

\* C15: in the array of every vector the slots below the length hold a live
\* element and the slots from the length up to the capacity hold none (so
\* the spare slots left by construction, reserve and growth are not
\* constructed), and emplace_back constructs only into a slot that holds no
\* live element.
C15_LiveBelowLengthOnly ==
  /\ \A w \in Names :
       Alive(w) /\ Buf(w) # NULL =>
         \A i \in 1 .. Cap(w) : heap[Buf(w)].slots[i].live <=> i <= Sz(w)
  /\ \A i \in DOMAIN lastOp.ev :
       lastOp.ev[i].k = "ctor" => lastOp.ev[i].n = 0

\* C16: a vector whose capacity is 0 holds no array: its first is null and
\* no allocated array belongs to it (after construction with count 0 or
\* from an empty list, as a copy of an empty vector, after being moved
\* from, after being emptied and passed to shrink_to_fit).
C16_NoCapacityNoArray ==
  \A w \in Names : Alive(w) /\ Cap(w) = 0 => Buf(w) = NULL

\* C17: no two live vectors hold the same array: the array of a live vector
\* is allocated and is not the array of another live vector, and every
\* allocated array is the array of exactly one live vector.
C17_OneOwner ==
  /\ \A w \in Names :
       Alive(w) /\ Buf(w) # NULL =>
         /\ heap[Buf(w)].alloc
         /\ \A o \in Names \ {w} : Alive(o) => Buf(o) # Buf(w)
  /\ \A b \in Bufs :
       heap[b].alloc => Cardinality({w \in Names : Alive(w) /\ Buf(w) = b}) = 1

C17_Witness ==
  /\ lastOp.op = "vector(&&)"
  /\ Sz(lastOp.who) >= 1
  /\ heap[Buf(lastOp.who)].alloc
  /\ Alive(lastOp.other)
  /\ Buf(lastOp.other) = NULL

\* the call of the step is one of those that replace the array of w
Replaces(w) ==
  \/ lastOp'.op = "reserve" /\ lastOp'.args[1] > Cap(w)
  \/ lastOp'.op = "shrink_to_fit" /\ Cap(w) > Sz(w)
  \/ lastOp'.op = "resize" /\ lastOp'.args[1] > Cap(w)
  \/ lastOp'.op \in {"push_back", "emplace_back"} /\ Sz(w) = Cap(w)

\* the calls that never replace the array
Keeps ==
  {"pop_back", "clear", "[]=", "at", "front", "back",
   "==", "!=", "<", "<=", ">", ">=", ">>", "<<"}

\* C18: a call on a vector gives it another array or another capacity only
\* if it is reserve(n) with n > capacity, shrink_to_fit with capacity >
\* length, resize(n) with n > capacity, or push_back / emplace_back at
\* length = capacity, and then the array is a newly allocated one; an
\* append below capacity, pop_back, clear, a shrinking resize, element
\* access, comparison and stream I/O leave the array address and the
\* capacity as they were; clear leaves length 0.
C18_ReplacedOnlyBy ==
  [][\A w \in Names :
       Alive(w) /\ Alive(w)' /\ lastOp'.who = w =>
         /\ Buf(w)' # Buf(w) \/ Cap(w)' # Cap(w) => Replaces(w)
         /\ Replaces(w) =>
              /\ Buf(w)' # Buf(w)
              /\ ~heap[Buf(w)'].alloc
              /\ lastOp'.ev[1] = Ev("alloc", Buf(w)', Cap(w)')
         /\ \/ lastOp'.op \in Keeps
            \/ lastOp'.op \in {"push_back", "emplace_back"} /\ Sz(w) < Cap(w)
            \/ lastOp'.op = "resize" /\ lastOp'.args[1] <= Sz(w)
            => Buf(w)' = Buf(w) /\ Cap(w)' = Cap(w)
         /\ lastOp'.op = "clear" => Sz(w)' = 0]_vars

C18_Witness ==
  /\ lastOp.op = "clear"
  /\ Sz(lastOp.who) = 0
  /\ Cap(lastOp.who) >= 2
  /\ Len(lastOp.ev) >= 2

\* C19: every array allocated is released exactly once: no call releases an
\* array that has been released already (after a move, a swap or a
\* self-assignment), no allocated array is left without a live vector to
\* release it (the old array after a reallocation or an assignment), and
\* once every vector is destroyed no array is allocated.
C19_ReleasedExactlyOnce ==
  /\ \A i \in DOMAIN lastOp.ev : lastOp.ev[i].k # "refree"
  /\ \A b \in Bufs : heap[b].alloc => \E w \in Names : Alive(w) /\ Buf(w) = b
  /\ (\A w \in Objs : ~Alive(w)) => \A b \in Bufs : ~heap[b].alloc

C19_Witness ==
  /\ lastOp.op = "~vector"
  /\ \A w \in Names : ~Alive(w)
  /\ \E i \in DOMAIN lastOp.ev :
       lastOp.ev[i].k = "free" /\ lastOp.ev[i].b >= 2
  /\ \A b \in Bufs : ~heap[b].alloc

\* C20: push_back(x) and resize(n, x) called with x a reference to an
\* element of the vector itself append copies of the value that element had
\* when the call was made, also when the call reallocates.
C20_AliasedArgument ==
  [][\A w \in Names :
       /\ lastOp'.op = "push_back" /\ lastOp'.who = w /\ lastOp'.args[1] = 1 =>
            /\ Sz(w)' = Sz(w) + 1
            /\ Els(w)'[Sz(w)'] = Els(w)[lastOp'.args[2] + 1]
       /\ lastOp'.op = "resize" /\ lastOp'.who = w /\ lastOp'.args[2] = 1 =>
            \A i \in Sz(w) + 1 .. Sz(w)' :
              Els(w)'[i] = Els(w)[lastOp'.args[3] + 1]]_vars

====
